---------------------------- MODULE Spec2Model ----------------------------
(***************************************************************************)
(* Decision-tree node codec of SOFTWARE/convert_bin.py: the per-feature    *)
(* fixed-point quantizer float_to_fixed_point, the packer node_to_binary   *)
(* and the unpacker decode_node of TreeToBinaryMemConverter.               *)
(*                                                                         *)
(* Number representations.                                                 *)
(*  - A Python int that stays below 2^31 is a TLA+ integer.                *)
(*  - The 64-bit node value does not fit a TLC integer. A non-negative     *)
(*    Python int of arbitrary size is the set of the positions of its 1    *)
(*    bits: << is a translation of the set, | is union, & intersection.    *)
(*  - A float is a dyadic rational [m |-> mantissa, e |-> exponent] with   *)
(*    value m * 2^e. Every finite float is such a number, and the product  *)
(*    with 2 ** frac_bits is exact in IEEE-754 arithmetic for the sampled  *)
(*    magnitudes. Non-finite floats are outside the modelled domain.       *)
(***************************************************************************)
EXTENDS Integers, Sequences, FiniteSets

VARIABLES
    pc,          \* position of the run: see Init and the actions
    node_row,    \* the input row handed to node_to_binary
    node_value,  \* the 64-bit node value (set of 1-bit positions)
    decoded,     \* the dictionary returned by decode_node
    q_in,        \* the values handed to float_to_fixed_point, in call order
    q_fid,       \* the feature_id argument of those calls
    q_args,      \* the caller's <<int_bits, frac_bits>> arguments
    q_out,       \* the calls made so far: selected format and returned value
    df,          \* the tree table self.df: the rows of the CSV, in order
    binary_values, \* the list generate_binary_mem_file returns
    mem_file,    \* the .mem file written: header and node lines
    metadata,    \* the counts written to the metadata file
    v_bv,        \* the binary_values argument of verify_conversion
    v_result,    \* what verify_conversion did: "True", "False", an exception
    last_timestamp, \* self.last_timestamp of the CANFeatureConverter
    trace,       \* the calls made on the converter so far, with their outcome
    frame_out,   \* what the last convert_dataframe did
    validation,  \* the argument and the result of validate_features
    detector_last_timestamp, \* self.last_timestamp of the CANAttackDetector
    detector_trace \* the extract_features calls made so far, with outcome

tvars == <<df, binary_values, mem_file, metadata, v_bv, v_result>>

evars ==
    <<last_timestamp, trace, frame_out, validation, detector_last_timestamp,
      detector_trace>>

vars ==
    <<pc, node_row, node_value, decoded, q_in, q_fid, q_args, q_out, tvars,
      evars>>

---------------------------------------------------------------------------
(* Bounds of the sampled inputs *)

\* thresholds are sampled with integer offsets -MaxMant..MaxMant
MaxMant == 5
\* and with up to FracSteps fractional bits below the quantization step
FracSteps == 2

\* longest tree table
MaxRows == 52

\* longest free text of an arbitration id or data field
MaxLen == 3
\* most 2-character chunks of a structured data field
MaxChunks == 3
\* most entries of a converter session
MaxCalls == 3

---------------------------------------------------------------------------
(* Integer helpers *)

Max(a, b) == IF a >= b THEN a ELSE b
Min(a, b) == IF a <= b THEN a ELSE b

\* positions of the 1 bits of a non-negative integer below 2^31
BitsOf(n) == {i \in 0..30 : (n \div (2^i)) % 2 = 1}

RECURSIVE ToInt(_)
\* the integer whose 1 bits are at the positions S (all below 31)
ToInt(S) ==
    IF S = {} THEN 0
    ELSE LET i == CHOOSE j \in S : TRUE
         IN 2^i + ToInt(S \ {i})

RECURSIVE BitAnd(_, _)
\* Python's a & mask on ints, mask >= 0 (two's complement for negative a)
BitAnd(a, mask) ==
    IF mask = 0 THEN 0
    ELSE (a % 2) * (mask % 2) + 2 * BitAnd(a \div 2, mask \div 2)

\* Python's n << k, the result as a set of bit positions
Shl(n, k) == {i + k : i \in BitsOf(n)}

\* Python's a | b on sets of bit positions
BitOr(a, b) == a \cup b

\* Python's (w >> k) & mask on a set of bit positions, the result an integer
ShrAnd(w, k, mask) == ToInt({i - k : i \in {j \in w : j >= k}} \cap BitsOf(mask))

---------------------------------------------------------------------------
(* Floats as dyadic rationals *)

Dy(m, e) == [m |-> m, e |-> e]

\* a <= b on dyadic rationals, without leaving the 32-bit integers
DyLeq(a, b) ==
    IF a.e >= b.e
    THEN LET D == 2^(a.e - b.e) IN a.m <= b.m \div D
    ELSE LET D == 2^(b.e - a.e) IN -((-a.m) \div D) <= b.m

\* value < 0
DyNeg(a) == a.m < 0

\* rounding with ties away towards +infinity (a mutant of round_scaled)
round_scaled_halfup(value, frac_bits) ==
    LET s == value.e + frac_bits
    IN IF s >= 0 THEN value.m * 2^s
       ELSE LET d == 2^(-s)
                q == value.m \div d
                r == value.m % d
            IN IF 2 * r < d THEN q ELSE q + 1

\* Python's int(round(value * (2 ** frac_bits))): the product is exact, and
\* the built-in round of a float rounds half to even
round_scaled(value, frac_bits) ==
    LET s == value.e + frac_bits
    IN IF s >= 0 THEN value.m * 2^s
       ELSE LET d == 2^(-s)
                q == value.m \div d
                r == value.m % d
            IN IF 2 * r < d THEN q
               ELSE IF 2 * r > d THEN q + 1
               ELSE IF q % 2 = 0 THEN q ELSE q + 1

---------------------------------------------------------------------------
(* TreeToBinaryMemConverter *)

\* self.feature_map
feature_map ==
    [c \in {"00", "01", "02", "03", "04", "05"} |->
        CASE c = "00" -> 0 [] c = "01" -> 1 [] c = "02" -> 2
          [] c = "03" -> 3 [] c = "04" -> 4 [] c = "05" -> 5]

\* a lookup whose default is a feature_id outside the table (a mutant of
\* feature_map_get)
feature_map_get_unknown(feature) ==
    IF feature \in DOMAIN feature_map THEN feature_map[feature] ELSE 6

\* self.feature_map.get(feature, 0)
feature_map_get(feature) ==
    IF feature \in DOMAIN feature_map THEN feature_map[feature] ELSE 0

\* the chain without its final else: an unknown feature_id keeps the
\* caller's int_bits, frac_bits (a mutant of select_format)
select_format_noelse(feature_id, int_bits, frac_bits) ==
    IF feature_id = 0 THEN <<11, 16>>
    ELSE IF feature_id = 1 THEN <<4, 23>>
    ELSE IF feature_id = 2 THEN <<8, 19>>
    ELSE IF feature_id = 3 THEN <<8, 19>>
    ELSE IF feature_id = 4 THEN <<11, 16>>
    ELSE IF feature_id = 5 THEN <<0, 27>>
    ELSE <<int_bits, frac_bits>>

\* the if/elif chain of float_to_fixed_point: the <<int_bits, frac_bits>>
\* in force when the value is scaled
select_format(feature_id, int_bits, frac_bits) ==
    IF feature_id = 0 THEN <<11, 16>>
    ELSE IF feature_id = 1 THEN <<4, 23>>
    ELSE IF feature_id = 2 THEN <<8, 19>>
    ELSE IF feature_id = 3 THEN <<8, 19>>
    ELSE IF feature_id = 4 THEN <<11, 16>>
    ELSE IF feature_id = 5 THEN <<0, 27>>
    ELSE <<14, 13>>

\* the quantizer without the clamp: the scaled value is only masked to 27
\* bits and wraps (a mutant of float_to_fixed_point)
float_to_fixed_point_wrap(value, feature_id, int_bits, frac_bits) ==
    LET fmt == select_format(feature_id, int_bits, frac_bits)
        scaled == round_scaled(value, fmt[2])
    IN BitAnd(scaled, 134217727)

\* the quantizer clamped from above only: a negative scaled value is
\* masked to 27 bits (a mutant of float_to_fixed_point)
float_to_fixed_point_nomin(value, feature_id, int_bits, frac_bits) ==
    LET fmt == select_format(feature_id, int_bits, frac_bits)
        scaled == round_scaled(value, fmt[2])
        max_val == (2^27) - 1
    IN BitAnd(Min(max_val, scaled), 134217727)

float_to_fixed_point(value, feature_id, int_bits, frac_bits) ==
    LET fmt == select_format(feature_id, int_bits, frac_bits)
        scaled == round_scaled(value, fmt[2])
        max_val == (2^27) - 1
        min_val == 0
        clamped == Max(min_val, Min(max_val, scaled))
    IN BitAnd(clamped, 134217727)

\* the fields with the leaf's node_type left at the leaf indicator 0x01,
\* whatever the prediction (a mutant of node_fields)
node_fields_leafflag(row) ==
    LET is_leaf == (row.Feature = "-1"
                    \/ (row.Left_Child = 0 /\ row.Right_Child = 0))
        feature_id == IF is_leaf THEN 0 ELSE feature_map_get(row.Feature)
    IN [node_id |-> row.Node,
        feature_id |-> feature_id,
        threshold_fixed |->
            IF is_leaf THEN 0
            ELSE float_to_fixed_point(row.Threshold, feature_id, 12, 15),
        right_child |-> row.Right_Child,
        left_child |-> row.Left_Child,
        node_type |-> IF is_leaf THEN 1 ELSE 0]

\* the fields with the threshold quantized in the format of feature 0,
\* whatever the row's feature (a mutant of node_fields)
node_fields_onefmt(row) ==
    LET is_leaf == (row.Feature = "-1"
                    \/ (row.Left_Child = 0 /\ row.Right_Child = 0))
        feature_id == IF is_leaf THEN 0 ELSE feature_map_get(row.Feature)
    IN [node_id |-> row.Node,
        feature_id |-> feature_id,
        threshold_fixed |->
            IF is_leaf THEN 0
            ELSE float_to_fixed_point(row.Threshold, 0, 12, 15),
        right_child |-> row.Right_Child,
        left_child |-> row.Left_Child,
        node_type |-> IF is_leaf THEN (IF row.Prediction = 1 THEN 1 ELSE 0)
                      ELSE 0]

\* the fields node_to_binary packs for a row. The row carries ints, a
\* string feature code and a float threshold, on which int(), str() and
\* float() return their argument
node_fields(row) ==
    LET node_id == row.Node
        feature == row.Feature
        threshold == row.Threshold
        left_child == row.Left_Child
        right_child == row.Right_Child
        prediction == row.Prediction
        is_leaf == (feature = "-1" \/ (left_child = 0 /\ right_child = 0))
        feature_id == IF is_leaf THEN 0 ELSE feature_map_get(feature)
    IN [node_id |-> node_id,
        feature_id |-> feature_id,
        threshold_fixed |->
            IF is_leaf THEN 0
            ELSE float_to_fixed_point(threshold, feature_id, 12, 15),
        right_child |-> right_child,
        left_child |-> left_child,
        node_type |-> IF is_leaf THEN (IF prediction = 1 THEN 1 ELSE 0) ELSE 0]

\* pack with the two child fields exchanged (a mutant of pack)
pack_swapped(f) ==
    BitOr(Shl(BitAnd(f.node_id, 255), 56),
    BitOr(Shl(BitAnd(f.feature_id, 7), 53),
    BitOr(Shl(BitAnd(f.threshold_fixed, 134217727), 26),
    BitOr(Shl(BitAnd(f.right_child, 255), 10),
    BitOr(Shl(BitAnd(f.left_child, 255), 18),
          Shl(BitAnd(f.node_type, 255), 2))))))

\* pack with feature_id shifted by 52, into the threshold's top bit (a
\* mutant of pack)
pack_overlap(f) ==
    BitOr(Shl(BitAnd(f.node_id, 255), 56),
    BitOr(Shl(BitAnd(f.feature_id, 7), 52),
    BitOr(Shl(BitAnd(f.threshold_fixed, 134217727), 26),
    BitOr(Shl(BitAnd(f.right_child, 255), 18),
    BitOr(Shl(BitAnd(f.left_child, 255), 10),
          Shl(BitAnd(f.node_type, 255), 2))))))

\* pack with node_id masked to 9 bits (a mutant of pack)
pack_wide(f) ==
    BitOr(Shl(BitAnd(f.node_id, 511), 56),
    BitOr(Shl(BitAnd(f.feature_id, 7), 53),
    BitOr(Shl(BitAnd(f.threshold_fixed, 134217727), 26),
    BitOr(Shl(BitAnd(f.right_child, 255), 18),
    BitOr(Shl(BitAnd(f.left_child, 255), 10),
          Shl(BitAnd(f.node_type, 255), 2))))))

\* the packing expression of node_to_binary
pack(f) ==
    BitOr(Shl(BitAnd(f.node_id, 255), 56),
    BitOr(Shl(BitAnd(f.feature_id, 7), 53),
    BitOr(Shl(BitAnd(f.threshold_fixed, 134217727), 26),
    BitOr(Shl(BitAnd(f.right_child, 255), 18),
    BitOr(Shl(BitAnd(f.left_child, 255), 10),
          Shl(BitAnd(f.node_type, 255), 2))))))

node_to_binary(row) == pack(node_fields(row))

\* Python's None and a present value
None == <<>>
Some(x) == <<x>>

\* decode_node deciding leaf-ness by node_type alone (a mutant of
\* decode_node)
decode_node_flagonly(w) ==
    LET node_type == ShrAnd(w, 2, 255)
        is_leaf == (node_type = 1)
    IN [node_id |-> ShrAnd(w, 56, 255),
        feature_id |-> ShrAnd(w, 53, 7),
        threshold_raw |-> ShrAnd(w, 26, 134217727),
        right_child |-> ShrAnd(w, 18, 255),
        left_child |-> ShrAnd(w, 10, 255),
        node_type_value |-> node_type,
        node_type |-> IF is_leaf THEN "Leaf" ELSE "Internal",
        prediction |-> IF is_leaf THEN Some(node_type) ELSE None,
        reserved |-> ShrAnd(w, 0, 3)]

decode_node(w) ==
    LET node_id == ShrAnd(w, 56, 255)
        feature_id == ShrAnd(w, 53, 7)
        threshold == ShrAnd(w, 26, 134217727)
        right_child == ShrAnd(w, 18, 255)
        left_child == ShrAnd(w, 10, 255)
        node_type == ShrAnd(w, 2, 255)
        reserved == ShrAnd(w, 0, 3)
        is_leaf == (node_type = 1) \/ (left_child = 0 /\ right_child = 0)
    IN [node_id |-> node_id,
        feature_id |-> feature_id,
        threshold_raw |-> threshold,
        right_child |-> right_child,
        left_child |-> left_child,
        node_type_value |-> node_type,
        node_type |-> IF is_leaf THEN "Leaf" ELSE "Internal",
        prediction |-> IF is_leaf THEN Some(node_type) ELSE None,
        reserved |-> reserved]

---------------------------------------------------------------------------
(* Sampled inputs *)

\* the per-feature format table of the design (feature_id -> <<integer
\* bits, fraction bits>>), used to place the sampled thresholds on and
\* around each feature's quantization grid
FormatTable(fid) ==
    CASE fid = 0 -> <<11, 16>>
      [] fid = 1 -> <<4, 23>>
      [] fid = 2 -> <<8, 19>>
      [] fid = 3 -> <<8, 19>>
      [] fid = 4 -> <<11, 16>>
      [] fid = 5 -> <<0, 27>>
      [] OTHER -> <<14, 13>>

\* offsets in units of 2^s; below the unit only odd ones, so that every
\* sampled number has one representation
Offsets(s) ==
    IF s = 0 THEN -MaxMant..MaxMant
    ELSE {m \in -MaxMant..MaxMant : m % 2 = 1}

\* <<m, s>>: the number m * 2^s in units of the quantization step: around
\* 0 (negative, zero, fractions, rounding ties), around the saturation
\* bound 2^27, and at twice the bound on both sides of 0
ScaledSamples ==
    UNION {{<<b * 2^(-s) + m, s>> : m \in Offsets(s)} :
              <<b, s>> \in {0, 2^27} \X (-FracSteps..0)}
    \cup {<<2^28, 0>>, <<-(2^28), 0>>}

\* the sampled float values for a feature_id
Thresholds(fid) ==
    {Dy(p[1], p[2] - FormatTable(fid)[2]) : p \in ScaledSamples}

\* feature codes of a row: the six known codes, the sentinel, an unknown one
FeatureCodes == {"00", "01", "02", "03", "04", "05", "-1", "06"}

\* the feature whose grid a row's threshold is sampled on
GridOf(c) ==
    CASE c = "01" -> 1 [] c = "02" -> 2 [] c = "03" -> 3
      [] c = "04" -> 4 [] c = "05" -> 5 [] OTHER -> 0

NodeVals == {0, 85, 255}
ChildVals == {0, 1, 170, 255}
Predictions == {0, 1, 2}

Rows ==
    UNION {[Node : NodeVals, Feature : {c}, Threshold : Thresholds(GridOf(c)),
            Left_Child : ChildVals, Right_Child : ChildVals,
            Prediction : Predictions] : c \in FeatureCodes}

\* 64-bit words handed to decode_node directly: every union of these
\* groups of bit positions
BitGroups ==
    {{0, 1}, {2}, {3}, {9}, {10, 17}, {18}, {25}, {26, 52}, {53, 55},
     {56, 63}, {60}}

RawWords == {UNION g : g \in SUBSET BitGroups}

\* feature_id arguments of float_to_fixed_point: 0..5 and unknown ones
FeatureIds == {-1, 0, 1, 2, 3, 4, 5, 6}

\* the caller's int_bits, frac_bits: the defaults and another pair
CallerArgs == {<<12, 15>>, <<13, 14>>}

---------------------------------------------------------------------------
(* The codec run: a row is packed and the word unpacked, or a given word   *)
(* is unpacked                                                             *)

NoRow ==
    [Node |-> 0, Feature |-> "-1", Threshold |-> Dy(0, 0), Left_Child |-> 0,
     Right_Child |-> 0, Prediction |-> 0]

QuantIdle == q_in = <<>> /\ q_fid = 0 /\ q_args = <<12, 15>> /\ q_out = <<>>

\* no table is loaded
TableIdle ==
    /\ df = <<>> /\ binary_values = <<>> /\ mem_file = <<>>
    /\ metadata = <<>> /\ v_bv = <<>> /\ v_result = "none"

\* no converter session is open
ExtractorIdle ==
    /\ last_timestamp = None /\ trace = <<>> /\ frame_out = <<>>
    /\ validation = None
    /\ detector_last_timestamp = None /\ detector_trace = <<>>

Init ==
    /\ QuantIdle
    /\ TableIdle
    /\ ExtractorIdle
    /\ decoded = None
    /\ \/ pc = "row" /\ node_row \in Rows /\ node_value = {}
       \/ pc = "word" /\ node_row = NoRow /\ node_value \in RawWords

NodeToBinary ==
    /\ pc = "row"
    /\ node_value' = node_to_binary(node_row)
    /\ pc' = "encoded"
    /\ UNCHANGED <<node_row, decoded, q_in, q_fid, q_args, q_out, tvars,
                   evars>>

DecodeNode ==
    /\ pc \in {"encoded", "word"}
    /\ decoded' = decode_node(node_value)
    /\ pc' = IF pc = "encoded" THEN "decoded" ELSE "word_decoded"
    /\ UNCHANGED <<node_row, node_value, q_in, q_fid, q_args, q_out, tvars,
                   evars>>

Next == NodeToBinary \/ DecodeNode

Spec == Init /\ [][Next]_vars

---------------------------------------------------------------------------
(* The quantizer run: float_to_fixed_point is called on two values with    *)
(* the same feature_id                                                     *)

InitQuant ==
    /\ pc = "quant"
    /\ TableIdle
    /\ ExtractorIdle
    /\ node_row = NoRow /\ node_value = {} /\ decoded = None
    /\ q_fid \in FeatureIds
    /\ q_in \in Thresholds(q_fid) \X Thresholds(q_fid)
    /\ q_args \in CallerArgs
    /\ q_out = <<>>

FloatToFixedPoint ==
    /\ pc = "quant"
    /\ Len(q_out) < Len(q_in)
    /\ LET value == q_in[Len(q_out) + 1]
       IN q_out' = Append(q_out,
              [fmt |-> select_format(q_fid, q_args[1], q_args[2]),
               result |-> float_to_fixed_point(value, q_fid, q_args[1], q_args[2])])
    /\ UNCHANGED <<pc, node_row, node_value, decoded, q_in, q_fid, q_args,
                   tvars, evars>>

NextQuant == FloatToFixedPoint

SpecQuant == InitQuant /\ [][NextQuant]_vars

---------------------------------------------------------------------------
(* Text of the memory file *)

\* A str is the sequence of its characters.
\* str(n) of an int n >= 0
RECURSIVE str_int(_)
str_int(n) ==
    IF n < 10
    THEN << <<"0", "1", "2", "3", "4", "5", "6", "7", "8", "9">>[n + 1] >>
    ELSE str_int(n \div 10) \o str_int(n % 10)

\* f"{n:3d}": right-aligned in a field of three characters
RECURSIVE rjust(_, _)
rjust(s, width) == IF Len(s) >= width THEN s ELSE rjust(<<" ">> \o s, width)

format_3d(n) == rjust(str_int(n), 3)

\* number of binary digits of a non-negative int given as a bit set
bit_length(w) ==
    IF w = {} THEN 0 ELSE 1 + (CHOOSE i \in w : \A j \in w : j <= i)

\* f"{binary_val:064b}" written least significant digit first
format_064b_lsbfirst(binary_val) ==
    LET width == IF bit_length(binary_val) > 64 THEN bit_length(binary_val)
                 ELSE 64
    IN  [i \in 1..width |-> IF (i - 1) \in binary_val THEN "1" ELSE "0"]

\* f"{binary_val:064b}": the binary digits, most significant first, padded
\* with zeros to at least 64 characters
format_064b(binary_val) ==
    LET width == IF bit_length(binary_val) > 64 THEN bit_length(binary_val)
                 ELSE 64
    IN  [i \in 1..width |-> IF (width - i) \in binary_val THEN "1" ELSE "0"]

\* the comment of a node line, from the decoded word
node_comment(d) ==
    IF d.node_type = "Leaf"
    THEN <<"N", "o", "d", "e", " ">> \o format_3d(d.node_id)
         \o <<":", " ", "L", "E", "A", "F", " ", "-", ">", " ">>
         \o (IF d.prediction = Some(1)
             THEN <<"A", "t", "t", "a", "c", "k">>
             ELSE <<"N", "o", "r", "m", "a", "l">>)
    ELSE <<"N", "o", "d", "e", " ">> \o format_3d(d.node_id)
         \o <<":", " ", "F", "e", "a", "t", "u", "r", "e", "[">>
         \o str_int(d.feature_id)
         \o <<"]", " ", "L", "=">> \o format_3d(d.left_child)
         \o <<" ", "R", "=">> \o format_3d(d.right_child)

\* one line of the file, without its newline
mem_line(binary_val) ==
    format_064b(binary_val) \o <<" ", " ", "/", "/", " ">>
    \o node_comment(decode_node(binary_val))

\* the loop over self.df.iterrows() that drops the last row
pack_rows_droplast(rows) ==
    [i \in 1..(IF Len(rows) > 1 THEN Len(rows) - 1 ELSE Len(rows))
       |-> node_to_binary(rows[i])]

\* the loop over self.df.iterrows(): one word per row, appended in order
pack_rows(rows) == [i \in 1..Len(rows) |-> node_to_binary(rows[i])]

\* the leaf test of _write_metadata
metadata_is_leaf(binary_val) ==
    \/ ShrAnd(binary_val, 2, 255) = 1
    \/ ShrAnd(binary_val, 10, 255) = 0 /\ ShrAnd(binary_val, 18, 255) = 0

\* the file written by generate_binary_mem_file: the header block is fixed
\* text but for its "Total Nodes" line; then one line per word
write_mem_file(values) ==
    [total_nodes |-> Len(values),
     lines |-> [i \in 1..Len(values) |-> mem_line(values[i])]]

\* the counts _write_metadata writes; the rest of that file is fixed text
write_metadata(values) ==
    [total_nodes |-> Len(values),
     internal_count |->
         Cardinality({i \in 1..Len(values) : ~metadata_is_leaf(values[i])}),
     leaf_count |->
         Cardinality({i \in 1..Len(values) : metadata_is_leaf(values[i])})]

---------------------------------------------------------------------------
(* verify_conversion *)

\* the sampled indices without the last row
sample_indices_nolast == <<0, 1, 2, 10, 50>>

\* the indices verify_conversion samples
sample_indices == <<0, 1, 2, 10, 50, -1>>

\* seq[i] of Python: negative indices count from the end
py_in_range(seq, i) == -Len(seq) <= i /\ i < Len(seq)
py_index(seq, i) == IF i >= 0 THEN seq[i + 1] ELSE seq[Len(seq) + i + 1]

\* the if/elif chain of one sampled index: 1 when a field differs
sample_error(node_row_, binary_val) ==
    LET d == decode_node(binary_val)
    IN  IF d.node_id # node_row_.Node THEN 1
        ELSE IF d.left_child # node_row_.Left_Child THEN 1
        ELSE IF d.right_child # node_row_.Right_Child THEN 1
        ELSE 0

\* the loop over the sampled indices from position k on, with the errors
\* counted so far; df_original.iloc[i] raises IndexError out of range
RECURSIVE verify_loop(_, _, _, _)
verify_loop(df_original, values, k, errors) ==
    IF k > Len(sample_indices)
    THEN IF errors = 0 THEN "True" ELSE "False"
    ELSE LET i == sample_indices[k]
         IN  IF i >= Len(df_original)
             THEN verify_loop(df_original, values, k + 1, errors)
             ELSE IF ~py_in_range(df_original, i)
             THEN "IndexError"
             ELSE verify_loop(df_original, values, k + 1,
                      errors + sample_error(py_index(df_original, i),
                                            py_index(values, i)))

verify_conversion(df_original, values) ==
    IF Len(df_original) # Len(values) THEN "False"
    ELSE verify_loop(df_original, values, 1, 0)

---------------------------------------------------------------------------
(* Sampled tables *)

\* the row at 0-based position i of a well-formed tree: every third row a
\* leaf, the others internal nodes testing the features in turn
TableRow(i) ==
    IF i % 3 = 2
    THEN [Node |-> i, Feature |-> "-1", Threshold |-> Dy(-2, 0),
          Left_Child |-> 0, Right_Child |-> 0, Prediction |-> (i \div 3) % 2]
    ELSE LET code == <<"00", "01", "02", "03", "04", "05">>[(i % 6) + 1]
         IN  [Node |-> i, Feature |-> code,
              Threshold |-> Dy(i + 1, -FormatTable(GridOf(code))[2]),
              Left_Child |-> i + 1, Right_Child |-> i + 2,
              Prediction |-> 0]

\* rows whose identifiers do not fit 8 bits or are negative, and rows with
\* a Prediction other than 0 and 1, at position i
OddRows(i) ==
    {[TableRow(i) EXCEPT !.Node = i + 256],
     [TableRow(i) EXCEPT !.Left_Child = 300],
     [TableRow(i) EXCEPT !.Right_Child = 511],
     [TableRow(i) EXCEPT !.Node = i - 256],
     [TableRow(i) EXCEPT !.Left_Child = -1, !.Right_Child = -255],
     [TableRow(i) EXCEPT !.Prediction = -3]}

\* the table lengths sampled: around the spot indices 2, 10 and 50
TableLens == {n \in 0..MaxRows : n <= 5 \/ n \in 10..12 \/ n >= 50}

\* the 1-based positions probed in a table of n rows
ProbePositions(n) ==
    {j \in 1..n : j <= 4 \/ j \in 10..12 \/ j \in 50..52 \/ j >= n - 1}

BaseTable(n) == [i \in 1..n |-> TableRow(i - 1)]

Tables ==
    {BaseTable(n) : n \in TableLens}
    \cup UNION {{[BaseTable(n) EXCEPT ![k] = odd] : odd \in OddRows(k - 1)} :
                   <<n, k>> \in {p \in TableLens \X (1..MaxRows) :
                                     p[2] \in ProbePositions(p[1])}}

\* the words a caller may hand to verify_conversion for one row: the word of
\* a row that differs in one identifier
Tampered(row) ==
    {node_to_binary([row EXCEPT !.Node = (row.Node + 1) % 256]),
     node_to_binary([row EXCEPT !.Left_Child = (row.Left_Child + 1) % 256]),
     node_to_binary([row EXCEPT !.Right_Child = (row.Right_Child + 1) % 256])}

\* the lists handed to verify_conversion for a table and its packed list
VerifyArgs(rows, values) ==
    {values}
    \cup {[values EXCEPT ![j] = w] :
             <<j, w>> \in UNION {{<<k, x>> : x \in Tampered(rows[k])} :
                                   k \in ProbePositions(Len(rows))}}
    \cup {Append(values, {})}
    \cup (IF values = <<>> THEN {} ELSE {SubSeq(values, 1, Len(values) - 1)})

---------------------------------------------------------------------------
(* The table run: the tree is written to the memory file, then the packed  *)
(* list is verified against the table                                      *)

InitTable ==
    /\ pc = "table"
    /\ node_row = NoRow /\ node_value = {} /\ decoded = None
    /\ QuantIdle
    /\ df \in Tables
    /\ binary_values = <<>> /\ mem_file = <<>> /\ metadata = <<>>
    /\ v_bv = <<>> /\ v_result = "none"
    /\ ExtractorIdle

GenerateBinaryMemFile ==
    /\ pc = "table"
    /\ binary_values' = pack_rows(df)
    /\ mem_file' = write_mem_file(binary_values')
    /\ metadata' = write_metadata(binary_values')
    /\ pc' = "generated"
    /\ UNCHANGED <<node_row, node_value, decoded, q_in, q_fid, q_args, q_out,
                   df, v_bv, v_result, evars>>

VerifyConversion ==
    /\ pc = "generated"
    /\ \E values \in VerifyArgs(df, binary_values) :
           /\ v_bv' = values
           /\ v_result' = verify_conversion(df, values)
    /\ pc' = "verified"
    /\ UNCHANGED <<node_row, node_value, decoded, q_in, q_fid, q_args, q_out,
                   df, binary_values, mem_file, metadata, evars>>

NextTable == GenerateBinaryMemFile \/ VerifyConversion

SpecTable == InitTable /\ [][NextTable]_vars

---------------------------------------------------------------------------
(* Python strings: a str is the sequence of its characters *)

\* characters str.strip() and int() treat as whitespace
Whitespace == {" ", "\t", "\n"}

HexDigitChars ==
    <<"0", "1", "2", "3", "4", "5", "6", "7", "8", "9",
      "a", "b", "c", "d", "e", "f">>

UpperHexChars == <<"A", "B", "C", "D", "E", "F">>

\* the value of a hexadecimal digit, -1 for any other character
hex_value(c) ==
    IF \E i \in 1..Len(HexDigitChars) : HexDigitChars[i] = c
    THEN (CHOOSE i \in 1..Len(HexDigitChars) : HexDigitChars[i] = c) - 1
    ELSE IF \E i \in 1..Len(UpperHexChars) : UpperHexChars[i] = c
    THEN (CHOOSE i \in 1..Len(UpperHexChars) : UpperHexChars[i] = c) + 9
    ELSE -1

\* s.replace(old, ''): every occurrence of old, found left to right, removed
RECURSIVE replace(_, _)
replace(s, old) ==
    IF Len(s) < Len(old) THEN s
    ELSE IF SubSeq(s, 1, Len(old)) = old
    THEN replace(SubSeq(s, Len(old) + 1, Len(s)), old)
    ELSE <<s[1]>> \o replace(Tail(s), old)

RECURSIVE lstrip(_)
lstrip(s) == IF s # <<>> /\ s[1] \in Whitespace THEN lstrip(Tail(s)) ELSE s

RECURSIVE rstrip(_)
rstrip(s) ==
    IF s # <<>> /\ s[Len(s)] \in Whitespace
    THEN rstrip(SubSeq(s, 1, Len(s) - 1)) ELSE s

\* s.strip()
strip(s) == rstrip(lstrip(s))

\* the digits of an int literal: hexadecimal digits, single underscores
\* allowed between digits (and, when after_prefix, before the first digit)
valid_digits(s, after_prefix) ==
    /\ s # <<>>
    /\ \A i \in 1..Len(s) : hex_value(s[i]) >= 0 \/ s[i] = "_"
    /\ s[Len(s)] # "_"
    /\ after_prefix \/ s[1] # "_"
    /\ \A i \in 1..(Len(s) - 1) : ~(s[i] = "_" /\ s[i + 1] = "_")

\* the value of valid digits, most significant first
RECURSIVE digits_value(_)
digits_value(s) ==
    IF s = <<>> THEN 0
    ELSE IF s[Len(s)] = "_" THEN digits_value(SubSeq(s, 1, Len(s) - 1))
    ELSE 16 * digits_value(SubSeq(s, 1, Len(s) - 1)) + hex_value(s[Len(s)])

\* int(s, 16): surrounding whitespace, a sign and a 0x/0X prefix are
\* accepted; anything else raises ValueError (ok is FALSE)
int16(s) ==
    LET t == strip(s)
        signed == t # <<>> /\ t[1] \in {"+", "-"}
        u == IF signed THEN Tail(t) ELSE t
        prefixed == Len(u) >= 2 /\ u[1] = "0" /\ u[2] \in {"x", "X"}
        body == IF prefixed THEN Tail(Tail(u)) ELSE u
    IN  IF valid_digits(body, prefixed)
        THEN [ok |-> TRUE,
              value |-> IF signed /\ t[1] = "-" THEN -digits_value(body)
                        ELSE digits_value(body)]
        ELSE [ok |-> FALSE, value |-> 0]

---------------------------------------------------------------------------
(* CANFeatureConverter of SOFTWARE/convert_sample.py *)

\* the float with the value of a dyadic rational
RECURSIVE DyNorm(_)
DyNorm(a) ==
    IF a.m = 0 THEN Dy(0, 0)
    ELSE IF a.m % 2 = 0 THEN DyNorm(Dy(a.m \div 2, a.e + 1))
    ELSE a

\* a - b on floats: exact for the sampled timestamps
DySub(a, b) ==
    LET e == Min(a.e, b.e)
    IN  DyNorm(Dy(a.m * 2^(a.e - e) - b.m * 2^(b.e - e), e))

\* the built-ins max(a, b) and min(a, b): the first argument unless the
\* second is greater (smaller)
py_max(a, b) == IF ~DyLeq(b, a) THEN b ELSE a
py_min(a, b) == IF ~DyLeq(a, b) THEN b ELSE a

\* an arbitration id is a str or an int
StrId(s) == [type |-> "str", v |-> s]
IntId(n) == [type |-> "int", v |-> n]

\* features['arb_id_dec'], or the ValueError of int()
arb_id_dec(arbitration_id) ==
    IF arbitration_id.type = "str"
    THEN LET arb_id_clean ==
                 strip(replace(replace(arbitration_id.v, <<"0", "x">>),
                               <<"0", "X">>))
         IN  int16(arb_id_clean)
    ELSE [ok |-> TRUE, value |-> arbitration_id.v]

\* data_str; str() returns a str data_field as it is
data_str_of(data_field) ==
    strip(replace(replace(replace(data_field, <<"0", "x">>), <<"0", "X">>),
                  <<" ">>))

\* features['first_byte'], or the ValueError of int()
first_byte(data_str) ==
    IF Len(data_str) >= 2 THEN int16(SubSeq(data_str, 1, 2))
    ELSE [ok |-> TRUE, value |-> 0]

\* features['last_byte'], or the ValueError of int()
last_byte(data_str) ==
    IF Len(data_str) >= 2
    THEN int16(SubSeq(data_str, Len(data_str) - 1, Len(data_str)))
    ELSE [ok |-> TRUE, value |-> 0]

\* the chunk loop that also sums a lone trailing character
byte_sum_withtail(data_str) ==
    LET starts == {i \in 1..Len(data_str) : i % 2 = 1}
        chunk(i) == int16(SubSeq(data_str, i, Min(i + 1, Len(data_str))))
        RECURSIVE total(_)
        total(S) == IF S = {} THEN 0
                    ELSE LET i == CHOOSE x \in S : TRUE
                         IN  chunk(i).value + total(S \ {i})
    IN  IF \E i \in starts : ~chunk(i).ok THEN 0 ELSE total(starts)

\* the chunk loop in its try block: the sum of the 2-character chunks that
\* fit, or 0 when the int() of one of them raises ValueError
byte_sum(data_str) ==
    LET starts == {i \in 1..Len(data_str) : i % 2 = 1 /\ i + 1 <= Len(data_str)}
        chunk(i) == int16(SubSeq(data_str, i, i + 1))
        RECURSIVE total(_)
        total(S) == IF S = {} THEN 0
                    ELSE LET i == CHOOSE x \in S : TRUE
                         IN  chunk(i).value + total(S \ {i})
    IN  IF \E i \in starts : ~chunk(i).ok THEN 0 ELSE total(starts)

\* the time_delta branch without the floor at 0.0
time_delta_nofloor(last, timestamp) ==
    IF timestamp # None /\ last # None
    THEN py_min(DySub(timestamp[1], last[1]), Dy(1, 0))
    ELSE Dy(0, 0)

\* features['time_delta']
time_delta(last, timestamp) ==
    IF timestamp # None /\ last # None
    THEN py_min(py_max(DySub(timestamp[1], last[1]), Dy(0, 0)),
                Dy(1, 0))
    ELSE Dy(0, 0)

\* a tracker that keeps the greatest timestamp seen
store_timestamp_max(last, timestamp) ==
    IF timestamp = None THEN last
    ELSE IF last # None /\ DyLeq(timestamp[1], last[1])
    THEN last
    ELSE timestamp

\* a tracker that a call without timestamp clears
store_timestamp_clear(last, timestamp) == timestamp

\* self.last_timestamp after the time_delta branch
store_timestamp(last, timestamp) ==
    IF timestamp # None THEN timestamp ELSE last

\* a conversion that stores the timestamp before it parses the record
convert_single_storefirst(last, arbitration_id, data_field, timestamp) ==
    LET arb == arb_id_dec(arbitration_id)
        data_str == data_str_of(data_field)
        first_b == first_byte(data_str)
        last_b == last_byte(data_str)
    IN  IF ~arb.ok \/ ~first_b.ok \/ ~last_b.ok
        THEN [raised |-> "ValueError", features |-> None,
              last_timestamp |-> store_timestamp(last, timestamp)]
        ELSE [raised |-> "none",
              features |-> Some([arb_id_dec |-> arb.value,
                                 data_length |-> Len(data_str),
                                 first_byte |-> first_b.value,
                                 last_byte |-> last_b.value,
                                 byte_sum |-> byte_sum(data_str),
                                 time_delta |->
                                     time_delta(last, timestamp)]),
              last_timestamp |-> store_timestamp(last, timestamp)]

\* convert_single: the features returned, or the ValueError raised by the
\* arbitration id, the first byte or the last byte, and self.last_timestamp
\* after the call; an exception leaves the function before the time_delta
\* branch
convert_single(last, arbitration_id, data_field, timestamp) ==
    LET arb == arb_id_dec(arbitration_id)
        data_str == data_str_of(data_field)
        first_b == first_byte(data_str)
        last_b == last_byte(data_str)
    IN  IF ~arb.ok \/ ~first_b.ok \/ ~last_b.ok
        THEN [raised |-> "ValueError", features |-> None,
              last_timestamp |-> last]
        ELSE [raised |-> "none",
              features |-> Some([arb_id_dec |-> arb.value,
                                 data_length |-> Len(data_str),
                                 first_byte |-> first_b.value,
                                 last_byte |-> last_b.value,
                                 byte_sum |-> byte_sum(data_str),
                                 time_delta |->
                                     time_delta(last, timestamp)]),
              last_timestamp |-> store_timestamp(last, timestamp)]

\* the table of validate_features: field, min_val, max_val, bits
checks ==
    <<<<"arb_id_dec", 0, 2047, 11>>, <<"data_length", 0, 16, 4>>,
      <<"first_byte", 0, 255, 8>>, <<"last_byte", 0, 255, 8>>,
      <<"byte_sum", 0, 2047, 11>>, <<"time_delta", 0, 1, 32>>>>

\* features.get(feat_name, 0)
features_get(features, feat_name) ==
    IF feat_name \in DOMAIN features THEN features[feat_name] ELSE 0

\* min_val <= val <= max_val; the value of time_delta is a float, the
\* values of the other fields are ints
in_range(feat_name, val, min_val, max_val) ==
    IF feat_name = "time_delta"
    THEN DyLeq(Dy(min_val, 0), val) /\ DyLeq(val, Dy(max_val, 0))
    ELSE min_val <= val /\ val <= max_val

\* a validation that tests the lower limits only
validate_features_minonly(features) ==
    \A k \in 1..Len(checks) :
        LET val == features_get(features, checks[k][1])
        IN  IF checks[k][1] = "time_delta"
            THEN DyLeq(Dy(checks[k][2], 0), val)
            ELSE checks[k][2] <= val

\* validate_features: False at the first field out of range, True when the
\* loop ends; nothing is assigned
validate_features(features) ==
    \A k \in 1..Len(checks) :
        in_range(checks[k][1], features_get(features, checks[k][1]),
                 checks[k][2], checks[k][3])

\* an extraction that does not cap time_delta
extract_features_uncapped(last, arbitration_id, data_field, timestamp) ==
    LET arb ==
            IF arbitration_id.type = "str"
            THEN int16(strip(replace(replace(arbitration_id.v, <<"0", "x">>),
                                     <<"0", "X">>)))
            ELSE [ok |-> TRUE, value |-> arbitration_id.v]
        data_str ==
            strip(replace(replace(replace(data_field, <<"0", "x">>),
                                  <<"0", "X">>), <<" ">>))
        first_b ==
            IF Len(data_str) >= 2 THEN int16(SubSeq(data_str, 1, 2))
            ELSE [ok |-> TRUE, value |-> 0]
        last_b ==
            IF Len(data_str) >= 2
            THEN int16(SubSeq(data_str, Len(data_str) - 1, Len(data_str)))
            ELSE [ok |-> TRUE, value |-> 0]
        \* range(0, len(data_str), 2) with i+2 <= len(data_str), 1-based
        pairs == {i \in 1..Len(data_str) :
                      i % 2 = 1 /\ i + 1 <= Len(data_str)}
        pair(i) == int16(SubSeq(data_str, i, i + 1))
        RECURSIVE total(_)
        total(S) == IF S = {} THEN 0
                    ELSE LET i == CHOOSE x \in S : TRUE
                         IN  pair(i).value + total(S \ {i})
        \* the bare except sets the sum to 0 whatever int() raised
        sum == IF \E i \in pairs : ~pair(i).ok THEN 0 ELSE total(pairs)
        delta ==
            IF timestamp # None
            THEN IF last # None
                 THEN LET floored ==
                              py_max(DySub(timestamp[1], last[1]), Dy(0, 0))
                      IN  floored
                 ELSE Dy(0, 0)
            ELSE Dy(0, 0)
    IN  IF ~arb.ok \/ ~first_b.ok \/ ~last_b.ok
        THEN [raised |-> "ValueError", features |-> None,
              last_timestamp |-> last]
        ELSE [raised |-> "none",
              features |->
                  Some([arb_id_dec |-> arb.value,
                        data_length |-> Len(data_str),
                        first_byte |-> first_b.value,
                        last_byte |-> last_b.value,
                        byte_sum |-> sum,
                        time_delta |-> delta,
                        _metadata |->
                            [raw_arb_id |-> arbitration_id,
                             raw_data |-> data_field,
                             raw_timestamp |-> timestamp,
                             data_str_length |-> Len(data_str),
                             data_hex |-> data_str]]),
              last_timestamp |->
                  IF timestamp # None THEN timestamp ELSE last]

\* CANAttackDetector.extract_features: the dictionary returned (six
\* features and _metadata), or the ValueError raised by the arbitration
\* id, the first byte or the last byte, and self.last_timestamp after the
\* call
extract_features(last, arbitration_id, data_field, timestamp) ==
    LET arb ==
            IF arbitration_id.type = "str"
            THEN int16(strip(replace(replace(arbitration_id.v, <<"0", "x">>),
                                     <<"0", "X">>)))
            ELSE [ok |-> TRUE, value |-> arbitration_id.v]
        data_str ==
            strip(replace(replace(replace(data_field, <<"0", "x">>),
                                  <<"0", "X">>), <<" ">>))
        first_b ==
            IF Len(data_str) >= 2 THEN int16(SubSeq(data_str, 1, 2))
            ELSE [ok |-> TRUE, value |-> 0]
        last_b ==
            IF Len(data_str) >= 2
            THEN int16(SubSeq(data_str, Len(data_str) - 1, Len(data_str)))
            ELSE [ok |-> TRUE, value |-> 0]
        \* range(0, len(data_str), 2) with i+2 <= len(data_str), 1-based
        pairs == {i \in 1..Len(data_str) :
                      i % 2 = 1 /\ i + 1 <= Len(data_str)}
        pair(i) == int16(SubSeq(data_str, i, i + 1))
        RECURSIVE total(_)
        total(S) == IF S = {} THEN 0
                    ELSE LET i == CHOOSE x \in S : TRUE
                         IN  pair(i).value + total(S \ {i})
        \* the bare except sets the sum to 0 whatever int() raised
        sum == IF \E i \in pairs : ~pair(i).ok THEN 0 ELSE total(pairs)
        delta ==
            IF timestamp # None
            THEN IF last # None
                 THEN py_min(py_max(DySub(timestamp[1], last[1]), Dy(0, 0)),
                             Dy(1, 0))
                 ELSE Dy(0, 0)
            ELSE Dy(0, 0)
    IN  IF ~arb.ok \/ ~first_b.ok \/ ~last_b.ok
        THEN [raised |-> "ValueError", features |-> None,
              last_timestamp |-> last]
        ELSE [raised |-> "none",
              features |->
                  Some([arb_id_dec |-> arb.value,
                        data_length |-> Len(data_str),
                        first_byte |-> first_b.value,
                        last_byte |-> last_b.value,
                        byte_sum |-> sum,
                        time_delta |-> delta,
                        _metadata |->
                            [raw_arb_id |-> arbitration_id,
                             raw_data |-> data_field,
                             raw_timestamp |-> timestamp,
                             data_str_length |-> Len(data_str),
                             data_hex |-> data_str]]),
              last_timestamp |->
                  IF timestamp # None THEN timestamp ELSE last]

\* a reset that keeps the tracker
reset_keep(last) == last

\* reset(): self.last_timestamp = None
reset(last) == None

\* one entry of the call log
Entry(op, in_frame, arbitration_id, data_field, timestamp, r) ==
    [op |-> op, in_frame |-> in_frame, arbitration_id |-> arbitration_id,
     data_field |-> data_field, timestamp |-> timestamp,
     raised |-> r.raised, features |-> r.features, after |-> r.last_timestamp]

\* the loop of convert_dataframe over the rows from position k on: the
\* features collected, the tracker and the calls made; a ValueError of
\* convert_single ends the loop and leaves convert_dataframe
RECURSIVE frame_loop(_, _, _, _, _, _)
frame_loop(rows, has_timestamp, k, last, features_list, made) ==
    IF k > Len(rows)
    THEN [raised |-> "none", result |-> Some(features_list),
          last_timestamp |-> last, calls |-> made]
    ELSE LET row == rows[k]
             ts == IF has_timestamp THEN row.timestamp ELSE None
             r == convert_single(last, row.arbitration_id, row.data_field, ts)
             made1 == Append(made, Entry("convert_single", TRUE,
                                         row.arbitration_id, row.data_field,
                                         ts, r))
         IN  IF r.raised # "none"
             THEN [raised |-> r.raised, result |-> None,
                   last_timestamp |-> r.last_timestamp, calls |-> made1]
             ELSE frame_loop(rows, has_timestamp, k + 1, r.last_timestamp,
                             Append(features_list, r.features[1]), made1)

\* a table conversion that requires the arbitration-id column only
convert_dataframe_onecheck(frame) ==
    IF ~({"arbitration_id"} \subseteq frame.columns)
    THEN [raised |-> "ValueError", result |-> None, last_timestamp |-> None,
          calls |-> <<>>]
    ELSE frame_loop(frame.rows, "timestamp" \in frame.columns, 1, None,
                    <<>>, <<>>)

\* convert_dataframe: the tracker is cleared, then the required columns are
\* checked, then the rows are converted in order
convert_dataframe(frame) ==
    IF ~({"arbitration_id", "data_field"} \subseteq frame.columns)
    THEN [raised |-> "ValueError", result |-> None, last_timestamp |-> None,
          calls |-> <<>>]
    ELSE frame_loop(frame.rows, "timestamp" \in frame.columns, 1, None,
                    <<>>, <<>>)

---------------------------------------------------------------------------
(* Sampled records *)

\* the characters of the sampled texts: hexadecimal digits of both cases,
\* the letters of the prefix, whitespace, and characters int() rejects or
\* treats specially
Alphabet == {"0", "1", "f", "x", "X", " ", "\t", "g", "-"}

\* every text of at most n characters
RECURSIVE Strings(_)
Strings(n) ==
    IF n = 0 THEN {<<>>}
    ELSE LET shorter == Strings(n - 1)
         IN  shorter \cup {Append(s, c) : s \in shorter, c \in Alphabet}

\* texts made of 2-character chunks
Chunks == {<<"0", "1">>, <<"f", "F">>, <<"0", "g">>, <<"0", "x">>}

RECURSIVE ChunkTexts(_)
ChunkTexts(n) ==
    IF n = 0 THEN {<<>>}
    ELSE LET shorter == ChunkTexts(n - 1)
         IN  shorter \cup {s \o c : s \in shorter, c \in Chunks}

\* the data fields sampled: short free texts, chunked payloads with an
\* optional prefix and lone last character, the 8-byte payload of the
\* documentation and a payload with "0x" across a chunk boundary
DataFields ==
    Strings(MaxLen)
    \cup {p \o s \o t : p \in {<<>>, <<"0", "x">>, <<" ">>},
                       s \in ChunkTexts(MaxChunks),
                       t \in {<<>>, <<"2">>, <<"g">>}}
    \cup {<<"0", "1", "0", "2", "0", "3", "0", "4",
            "0", "5", "0", "6", "0", "7", "0", "8">>,
          <<"1", "0", "x", "2", "3", "4">>}

\* the arbitration ids sampled: texts with and without prefix, and ints
ArbIds ==
    {StrId(s) : s \in Strings(MaxLen)}
    \cup {StrId(p \o s \o q) : p \in {<<"0", "x">>, <<"0", "X">>, <<" ", "0", "x">>},
                              s \in Strings(MaxLen - 1),
                              q \in {<<>>, <<" ">>}}
    \cup {StrId(<<"1", "0", "x", "2">>), StrId(<<"0", "x", "7", "F", "F">>),
          StrId(<<"1", "_", "A">>), StrId(<<"_", "1">>)}
    \cup {IntId(n) : n \in {-1, 0, 291, 2047, 2048}}

\* "0x123" and "0102", the record of the documentation
DocId == StrId(<<"0", "x", "1", "2", "3">>)
DocData == <<"0", "1", "0", "2">>

\* the timestamps sampled: 99.0, 100.0, 100.25 and 101.5
Timestamps == {DyNorm(Dy(m, -2)) : m \in {396, 400, 401, 406}}

Call(arbitration_id, data_field, timestamp) ==
    [arbitration_id |-> arbitration_id, data_field |-> data_field,
     timestamp |-> timestamp]

\* the records of a session: one that converts, with every timestamp and
\* without; one whose id is not hexadecimal, at 100.0 and without
\* timestamp; one whose first byte is not hexadecimal, at 100.0; one whose
\* last byte only is not hexadecimal, at 100.0
SessionCalls ==
    {Call(DocId, DocData, ts) : ts \in {None} \cup {Some(t) : t \in Timestamps}}
    \cup {Call(StrId(<<"0", "g">>), DocData, ts) : ts \in {None, Some(Dy(25, 2))}}
    \cup {Call(DocId, <<"0", "g">>, Some(Dy(25, 2)))}
    \cup {Call(DocId, <<"0", "1", "0", "g">>, Some(Dy(25, 2)))}

\* the tables handed to convert_dataframe: with every column or without one
\* of them, of zero to two rows
FrameRows ==
    {Call(DocId, DocData, Some(DyNorm(Dy(401, -2)))),
     Call(DocId, DocData, Some(DyNorm(Dy(396, -2)))),
     Call(StrId(<<"0", "g">>), DocData, Some(DyNorm(Dy(406, -2))))}

\* a feature vector inside every range
MidVector ==
    [arb_id_dec |-> 291, data_length |-> 4, first_byte |-> 1,
     last_byte |-> 2, byte_sum |-> 3, time_delta |-> Dy(1, -1)]

\* values of a field around its limits: below, at and above each
LimitValues(k) ==
    IF checks[k][1] = "time_delta"
    THEN {Dy(-1, -2), Dy(0, 0), Dy(1, 0), Dy(5, -2)}
    ELSE {checks[k][2] - 1, checks[k][2], checks[k][3], checks[k][3] + 1}

\* the feature vectors handed to validate_features: one field around its
\* limits, the others inside; and one with two fields out of range
FeatureVectors ==
    UNION {{[MidVector EXCEPT ![checks[k][1]] = v] : v \in LimitValues(k)} :
              k \in 1..Len(checks)}
    \cup {[MidVector EXCEPT !.arb_id_dec = 2048, !.byte_sum = -1]}

Frames ==
    {[columns |-> cols, rows |-> rows] :
         cols \in {{"arbitration_id", "data_field", "timestamp"},
                   {"arbitration_id", "data_field"},
                   {"data_field", "timestamp"},
                   {"arbitration_id", "timestamp"}},
         rows \in {<<>>} \cup {<<a>> : a \in FrameRows}
                  \cup {<<a, b>> : a \in FrameRows, b \in FrameRows}}

---------------------------------------------------------------------------
(* The converter runs: one call on a fresh converter, or a session of      *)
(* calls, resets and table conversions on one converter                    *)

ConverterFresh ==
    /\ node_row = NoRow /\ node_value = {} /\ decoded = None
    /\ QuantIdle
    /\ TableIdle
    /\ ExtractorIdle

InitParse == pc = "parse" /\ ConverterFresh

InitSession == pc = "session" /\ ConverterFresh

\* a fresh converter and a fresh detector that are given the same records:
\* a session of records, or one record of any form
InitPair == pc \in {"pair", "pairparse"} /\ ConverterFresh

\* the effect of one convert_single call on the converter
ConvertSingleCall(call) ==
    LET r == convert_single(last_timestamp, call.arbitration_id,
                            call.data_field, call.timestamp)
    IN  /\ last_timestamp' = r.last_timestamp
        /\ trace' = Append(trace,
                        Entry("convert_single", FALSE, call.arbitration_id,
                              call.data_field, call.timestamp, r))

\* a lone call is made with every id and the documented payload, and with
\* every data field and the documented id; a session draws its records
\* from SessionCalls
ConvertSingle ==
    /\ pc \in {"parse", "session", "pair", "pairparse"}
    /\ Len(trace) < MaxCalls
    /\ IF pc \in {"parse", "pairparse"}
       THEN \/ \E a \in ArbIds : ConvertSingleCall(Call(a, DocData, None))
            \/ \E d \in DataFields : ConvertSingleCall(Call(DocId, d, None))
       ELSE \E call \in SessionCalls : ConvertSingleCall(call)
    /\ pc' = CASE pc = "parse" -> "parsed"
                [] pc = "pairparse" -> "pairparsed"
                [] OTHER -> pc
    /\ UNCHANGED <<node_row, node_value, decoded, q_in, q_fid, q_args, q_out,
                   tvars, frame_out, validation, detector_last_timestamp,
                   detector_trace>>

Reset ==
    /\ pc = "session"
    /\ Len(trace) < MaxCalls
    /\ last_timestamp' = reset(last_timestamp)
    /\ trace' = Append(trace,
                    Entry("reset", FALSE, IntId(0), <<>>, None,
                          [raised |-> "none", features |-> None,
                           last_timestamp |-> last_timestamp']))
    /\ UNCHANGED <<pc, node_row, node_value, decoded, q_in, q_fid, q_args,
                   q_out, tvars, frame_out, validation,
                   detector_last_timestamp, detector_trace>>

ConvertDataframe ==
    /\ pc = "session"
    /\ \E frame \in Frames :
           /\ Len(trace) + 1 + Len(frame.rows) <= MaxCalls
           /\ LET r == convert_dataframe(frame)
              IN  /\ last_timestamp' = r.last_timestamp
                  /\ trace' = Append(trace,
                                  Entry("convert_dataframe", FALSE, IntId(0),
                                        <<>>, None,
                                        [raised |-> r.raised,
                                         features |-> None,
                                         last_timestamp |-> None]))
                              \o r.calls
                  /\ frame_out' = [columns |-> frame.columns,
                                   rows |-> frame.rows,
                                   raised |-> r.raised, result |-> r.result]
    /\ UNCHANGED <<pc, node_row, node_value, decoded, q_in, q_fid, q_args,
                   q_out, tvars, validation, detector_last_timestamp,
                   detector_trace>>

\* validate_features is called on feature vectors around the limits of
\* every field, on a fresh converter, or on the features the last call has
\* returned
ValidateFeatures ==
    /\ pc \in {"parse", "parsed", "session"}
    /\ \E features \in
             (IF trace = <<>> THEN FeatureVectors ELSE {})
             \cup (IF trace # <<>> /\ trace[Len(trace)].features # None
                   THEN {trace[Len(trace)].features[1]} ELSE {}) :
           validation' = Some([features |-> features,
                               result |-> validate_features(features)])
    /\ pc' = "validated"
    /\ UNCHANGED <<node_row, node_value, decoded, q_in, q_fid, q_args, q_out,
                   tvars, last_timestamp, trace, frame_out,
                   detector_last_timestamp, detector_trace>>

\* the detector is given the next record the converter was given
ExtractFeatures ==
    /\ pc \in {"pair", "pairparsed"}
    /\ Len(detector_trace) < Len(trace)
    /\ LET call == trace[Len(detector_trace) + 1]
           r == extract_features(detector_last_timestamp, call.arbitration_id,
                                 call.data_field, call.timestamp)
       IN  /\ detector_last_timestamp' = r.last_timestamp
           /\ detector_trace' =
                  Append(detector_trace,
                         [raised |-> r.raised, features |-> r.features,
                          after |-> r.last_timestamp])
    /\ UNCHANGED <<pc, node_row, node_value, decoded, q_in, q_fid, q_args,
                   q_out, tvars, last_timestamp, trace, frame_out,
                   validation>>

NextPair == ConvertSingle \/ ExtractFeatures

SpecPair == InitPair /\ [][NextPair]_vars

NextParse == ConvertSingle \/ ValidateFeatures

SpecParse == InitParse /\ [][NextParse]_vars

NextSession == ConvertSingle \/ Reset \/ ConvertDataframe \/ ValidateFeatures

SpecSession == InitSession /\ [][NextSession]_vars

---------------------------------------------------------------------------
(* Vocabulary of the properties *)

RECURSIVE FieldAt(_, _, _)
\* the number written in the bits lo+width-1 : lo of the word w
FieldAt(w, lo, width) ==
    IF width = 0 THEN 0
    ELSE (IF lo \in w THEN 1 ELSE 0) + 2 * FieldAt(w, lo + 1, width - 1)

\* a row is a leaf by the encoder's rule
RowIsLeaf(row) ==
    row.Feature = "-1" \/ (row.Left_Child = 0 /\ row.Right_Child = 0)

\* Node and both children in 0..255, Prediction 0 or 1
RowInRange(row) ==
    /\ row.Node \in 0..255
    /\ row.Left_Child \in 0..255
    /\ row.Right_Child \in 0..255
    /\ row.Prediction \in {0, 1}

\* node_to_binary has returned for the row of this run
Encoded == pc \in {"encoded", "decoded"}

\* C1: field round-trip. Decoding the packed word of a row with Node and
\* both children in 0..255 gives back node_id = Node, left_child =
\* Left_Child and right_child = Right_Child, whatever the feature code,
\* the threshold and the prediction are.
C1_FieldRoundTrip ==
    (pc = "decoded" /\ RowInRange(node_row)) =>
        /\ decoded.node_id = node_row.Node
        /\ decoded.left_child = node_row.Left_Child
        /\ decoded.right_child = node_row.Right_Child

C1_Witness ==
    /\ pc = "decoded"
    /\ node_row.Node = 255 /\ node_row.Left_Child = 170
    /\ node_row.Right_Child = 1 /\ node_row.Feature = "06"
    /\ node_row.Prediction = 1
    /\ decoded.node_id = 255 /\ decoded.left_child = 170
    /\ decoded.right_child = 1

\* C2: classification round-trip. Decoding the packed word of an in-range
\* row reports "Leaf" exactly when the row is a leaf by the encoder's rule.
C2_ClassRoundTrip ==
    (pc = "decoded" /\ RowInRange(node_row)) =>
        ((decoded.node_type = "Leaf") <=> RowIsLeaf(node_row))

\* C3: a row whose Feature is the "-1" sentinel decodes as "Leaf", for
\* any children in 0..255 and for Prediction 0 or 1.
C3_SentinelIsLeaf ==
    (pc = "decoded" /\ RowInRange(node_row) /\ node_row.Feature = "-1") =>
        decoded.node_type = "Leaf"

\* C4: bit layout. The packed word of an in-range row has node_id in bits
\* 63:56, feature_id in 55:53, the threshold bits in 52:26, right_child in
\* 25:18, left_child in 17:10, node_type in 9:2, bits 1:0 clear and no bit
\* above 63: it is the sum of the six fields, each times 2^offset.
C4_BitLayout ==
    (Encoded /\ RowInRange(node_row)) =>
        LET f == node_fields(node_row)
        IN /\ node_value \subseteq 2..63
           /\ FieldAt(node_value, 56, 8) = f.node_id
           /\ FieldAt(node_value, 53, 3) = f.feature_id
           /\ FieldAt(node_value, 26, 27) = f.threshold_fixed
           /\ FieldAt(node_value, 18, 8) = f.right_child
           /\ FieldAt(node_value, 10, 8) = f.left_child
           /\ FieldAt(node_value, 2, 8) = f.node_type

C4_Witness ==
    /\ pc = "encoded"
    /\ node_row.Node = 255 /\ node_row.Feature = "05"
    /\ node_row.Left_Child = 170 /\ node_row.Right_Child = 255
    /\ node_row.Prediction = 1
    /\ FieldAt(node_value, 26, 27) = 2^27 - 1
    /\ FieldAt(node_value, 53, 3) = 5
    /\ FieldAt(node_value, 56, 8) = 255

\* round(value * 2^f), stated as the nearest integer, the even one of the
\* two at a tie
RoundRef(value, f) ==
    LET s == value.e + f
    IN IF s >= 0 THEN value.m * 2^s
       ELSE LET d == 2^(-s)
                q == value.m \div d
                Dist(n) == IF value.m >= n * d THEN value.m - n * d
                           ELSE n * d - value.m
            IN CHOOSE n \in {q, q + 1} :
                   \/ 2 * Dist(n) < d
                   \/ 2 * Dist(n) = d /\ n % 2 = 0

\* min(2^27-1, max(0, round(value * 2^f))) with f from the format table
QuantRef(value, fid) ==
    LET r == RoundRef(value, FormatTable(fid)[2])
    IN IF r < 0 THEN 0 ELSE IF r > 2^27 - 1 THEN 2^27 - 1 ELSE r

\* C5: every call of float_to_fixed_point returns min(2^27-1, max(0,
\* round(value * 2^f))) with f = 16, 23, 19, 19, 16, 27 for feature_id
\* 0..5 and 13 for any other; the format in force sums to 27 bits; the
\* caller's int_bits and frac_bits do not enter the result.
C5_QuantFormula ==
    \A k \in 1..Len(q_out) :
        /\ q_out[k].result = QuantRef(q_in[k], q_fid)
        /\ q_out[k].fmt[1] + q_out[k].fmt[2] = 27
        /\ q_out[k].fmt[2] = FormatTable(q_fid)[2]

C5_Witness ==
    /\ Len(q_out) = 2
    /\ q_fid = 6 /\ q_args = <<13, 14>>
    /\ q_in[1] = Dy(5, -15) /\ q_out[1].result = 1
    /\ q_in[2] = Dy(3, -14) /\ q_out[2].result = 2
    /\ q_out[2].fmt = <<14, 13>>

\* C6: quantization is monotone. For a fixed feature_id and values
\* a <= b, float_to_fixed_point(a) <= float_to_fixed_point(b).
C6_Monotone ==
    \A j, k \in 1..Len(q_out) :
        DyLeq(q_in[j], q_in[k]) => q_out[j].result <= q_out[k].result

\* a value that rounds down at a tie just below the bound, then a value
\* beyond the bound that saturates
C6_Witness ==
    /\ Len(q_out) = 2
    /\ q_fid = 5
    /\ q_in[1] = Dy(2^28 - 3, -28) /\ q_in[2] = Dy(2^28, -27)
    /\ DyLeq(q_in[1], q_in[2]) /\ ~DyLeq(q_in[2], q_in[1])
    /\ q_out[1].result = 2^27 - 2 /\ q_out[2].result = 2^27 - 1

C8_DecodeWord ==
    pc = "word_decoded" =>
        LET nt == FieldAt(node_value, 2, 8)
            lc == FieldAt(node_value, 10, 8)
            rc == FieldAt(node_value, 18, 8)
            leaf == (nt = 1 \/ (lc = 0 /\ rc = 0))
        IN /\ decoded.node_id = FieldAt(node_value, 56, 8)
           /\ decoded.feature_id = FieldAt(node_value, 53, 3)
           /\ decoded.threshold_raw = FieldAt(node_value, 26, 27)
           /\ decoded.right_child = rc
           /\ decoded.left_child = lc
           /\ decoded.node_type_value = nt
           /\ decoded.reserved = FieldAt(node_value, 0, 2)
           /\ decoded.node_type = (IF leaf THEN "Leaf" ELSE "Internal")
           /\ decoded.prediction = (IF leaf THEN <<nt>> ELSE <<>>)

\* node_type 0 with both children 0: a leaf of the negative class
C8_Witness ==
    /\ pc = "word_decoded"
    /\ node_value = {0, 1, 26, 52, 53, 55, 56, 63}
    /\ decoded.node_type = "Leaf" /\ decoded.prediction = <<0>>
    /\ decoded.node_id = 129 /\ decoded.feature_id = 5
    /\ decoded.threshold_raw = 2^26 + 1 /\ decoded.reserved = 3

\* C9: leaf encoding. The packed word of a leaf row holds feature_id 0 and
\* threshold bits 0 whatever the row's Feature and Threshold, and
\* node_type 1 when Prediction = 1, node_type 0 for any other Prediction.
C9_LeafEncoding ==
    (Encoded /\ RowIsLeaf(node_row)) =>
        /\ FieldAt(node_value, 53, 3) = 0
        /\ FieldAt(node_value, 26, 27) = 0
        /\ FieldAt(node_value, 2, 8) = (IF node_row.Prediction = 1 THEN 1 ELSE 0)

\* a leaf by its children, with a real feature, a threshold that would
\* quantize to a non-zero value, and a prediction other than 0 and 1
C9_Witness ==
    /\ pc = "encoded"
    /\ node_row.Feature = "05" /\ node_row.Threshold = Dy(5, -27)
    /\ node_row.Left_Child = 0 /\ node_row.Right_Child = 0
    /\ node_row.Prediction = 2 /\ node_row.Node = 85
    /\ node_value = {56, 58, 60, 62}

\* the id of a symbolic feature code: "00".."05" are 0..5, any other 0
CodeId(c) ==
    CASE c = "00" -> 0 [] c = "01" -> 1 [] c = "02" -> 2 [] c = "03" -> 3
      [] c = "04" -> 4 [] c = "05" -> 5 [] OTHER -> 0

\* C10: internal encoding. The packed word of a row that is not a leaf
\* holds node_type 0 whatever the Prediction, the feature_id mapped from
\* the feature code (unknown codes map to 0), and threshold bits equal to
\* float_to_fixed_point(Threshold, that feature_id).
C10_InternalEncoding ==
    (Encoded /\ ~RowIsLeaf(node_row)) =>
        /\ FieldAt(node_value, 2, 8) = 0
        /\ FieldAt(node_value, 53, 3) = CodeId(node_row.Feature)
        /\ FieldAt(node_value, 26, 27) =
              float_to_fixed_point(node_row.Threshold,
                                   CodeId(node_row.Feature), 12, 15)

C10_Witness ==
    /\ pc = "encoded"
    /\ node_row.Feature = "03" /\ node_row.Threshold = Dy(3, -20)
    /\ node_row.Left_Child = 1 /\ node_row.Right_Child = 170
    /\ node_row.Prediction = 1
    /\ FieldAt(node_value, 2, 8) = 0
    /\ FieldAt(node_value, 53, 3) = 3
    /\ FieldAt(node_value, 26, 27) = 2

---------------------------------------------------------------------------
(* The memory file and its verification *)

Generated == pc \in {"generated", "verified"}

\* the int whose binary digits, most significant first, are the characters
\* of digits, as a bit set
MsbFirstValue(digits) ==
    {Len(digits) - i : i \in {j \in 1..Len(digits) : digits[j] = "1"}}

IsBinaryText(text) == \A i \in 1..Len(text) : text[i] \in {"0", "1"}

\* the returned list: one word per row, in row order
PackedInOrder ==
    /\ Len(binary_values) = Len(df)
    /\ \A i \in 1..Len(df) : binary_values[i] = node_to_binary(df[i])

\* C11 as stated: generate_binary_mem_file returns one word per input row,
\* the i-th being node_to_binary of the i-th row, and each word is written
\* as a line of exactly 64 characters '0'/'1' whose value read most
\* significant bit first is the word.
C11_Stated ==
    Generated =>
        /\ PackedInOrder
        /\ Len(mem_file.lines) = Len(binary_values)
        /\ \A i \in 1..Len(binary_values) :
               /\ Len(mem_file.lines[i]) = 64
               /\ IsBinaryText(mem_file.lines[i])
               /\ MsbFirstValue(mem_file.lines[i]) = binary_values[i]

\* C11 amended: generate_binary_mem_file returns one word per input row,
\* the i-th being node_to_binary of the i-th row, and each word is written
\* as a line that begins with exactly 64 characters '0'/'1' whose value read
\* most significant bit first is the word; the line goes on with two
\* spaces and a "//" comment.
C11_TableSerialization ==
    Generated =>
        /\ PackedInOrder
        /\ Len(mem_file.lines) = Len(binary_values)
        /\ \A i \in 1..Len(binary_values) :
               LET line == mem_file.lines[i]
               IN  /\ Len(line) > 64 + 4
                   /\ IsBinaryText(SubSeq(line, 1, 64))
                   /\ MsbFirstValue(SubSeq(line, 1, 64)) = binary_values[i]
                   /\ SubSeq(line, 64 + 1, 64 + 4) = <<" ", " ", "/", "/">>

\* a full-length table with a row whose Node does not fit 8 bits was written
C11_Witness ==
    /\ pc = "generated"
    /\ Len(df) = MaxRows
    /\ \E i \in 1..Len(df) : df[i].Node > 255
    /\ Len(mem_file.lines) = MaxRows

\* the 1-based positions of the rows verify_conversion is to sample in a
\* table of n rows: the first three that exist, the spot rows, the last
SampledPositions(n) ==
    {j \in {1, 2, 3, 11, 51} : j <= n} \cup (IF n > 0 THEN {n} ELSE {})

\* the identifiers held by the word are those of the row
IdsMatch(row, w) ==
    /\ FieldAt(w, 56, 8) = row.Node
    /\ FieldAt(w, 10, 8) = row.Left_Child
    /\ FieldAt(w, 18, 8) = row.Right_Child

\* C12: verify_conversion returns True only if the packed list is as long as
\* the table and every sampled row (the first three that exist, the spot
\* rows, the last) has its node_id, left_child and right_child in the word
\* at its index; a mismatch at a sampled index makes it return False.
C12_VerifyAccepts ==
    pc = "verified" =>
        /\ v_result = "True" =>
               /\ Len(v_bv) = Len(df)
               /\ \A j \in SampledPositions(Len(df)) : IdsMatch(df[j], v_bv[j])
        /\ (/\ Len(v_bv) = Len(df)
            /\ \E j \in SampledPositions(Len(df)) : ~IdsMatch(df[j], v_bv[j]))
               => v_result = "False"

\* a list that differs from the table in its last row only, which no other
\* sampled index covers, was rejected
C12_Witness ==
    /\ pc = "verified"
    /\ Len(df) = 5 /\ Len(v_bv) = 5
    /\ \A j \in 1..4 : IdsMatch(df[j], v_bv[j])
    /\ ~IdsMatch(df[5], v_bv[5])
    /\ v_result = "False"

---------------------------------------------------------------------------
(* The converter session *)

\* min(max(d, 0.0), 1.0) as a case distinction
Clamp01(d) ==
    IF DyLeq(d, Dy(0, 0)) THEN Dy(0, 0)
    ELSE IF DyLeq(Dy(1, 0), d) THEN Dy(1, 0)
    ELSE d

\* entry k of the log is a convert_single call that supplied a timestamp
\* and returned its features
Stamped(k) ==
    /\ trace[k].op = "convert_single"
    /\ trace[k].timestamp # None
    /\ trace[k].raised = "none"

\* the log holds direct convert_single calls with a timestamp only
OnlyStampedCalls ==
    \A k \in 1..Len(trace) :
        /\ trace[k].op = "convert_single" /\ ~trace[k].in_frame
        /\ trace[k].timestamp # None

\* the last call before k that supplied a timestamp and returned, 0 if none
PrevStamped(k) ==
    IF \E j \in 1..(k - 1) : Stamped(j)
    THEN CHOOSE j \in 1..(k - 1) :
             Stamped(j) /\ \A i \in (j + 1)..(k - 1) : ~Stamped(i)
    ELSE 0

DeltaAt(k) == trace[k].features[1].time_delta

T100 == Dy(25, 2)
T99 == Dy(99, 0)
T101_5 == Dy(203, -1)
T100_25 == Dy(401, -2)

\* C13: on one converter, in a sequence of convert_single calls that all
\* supply a timestamp, the first call that returns has time_delta 0.0 and
\* every later one min(max(timestamp - previous timestamp, 0.0), 1.0),
\* the previous timestamp being that of the call before it that returned;
\* timestamps 100.0, 99.0, 101.5 give 0.0, 0.0, 1.0; and every time_delta
\* returned in any session is within [0.0, 1.0].
C13_DeltaSequence ==
    /\ OnlyStampedCalls =>
           \A k \in 1..Len(trace) :
               Stamped(k) =>
                   IF PrevStamped(k) = 0
                   THEN DeltaAt(k) = Dy(0, 0)
                   ELSE DeltaAt(k) =
                            Clamp01(DySub(trace[k].timestamp[1],
                                          trace[PrevStamped(k)].timestamp[1]))
    /\ (/\ OnlyStampedCalls /\ Len(trace) = 3
        /\ \A k \in 1..3 : Stamped(k)
        /\ <<trace[1].timestamp, trace[2].timestamp, trace[3].timestamp>>
               = <<Some(T100), Some(T99), Some(T101_5)>>)
           => <<DeltaAt(1), DeltaAt(2), DeltaAt(3)>>
                  = <<Dy(0, 0), Dy(0, 0), Dy(1, 0)>>
    /\ \A k \in 1..Len(trace) :
           trace[k].features # None =>
               DyLeq(Dy(0, 0), DeltaAt(k)) /\ DyLeq(DeltaAt(k), Dy(1, 0))

\* the calls with timestamps 100.0, 99.0, 101.5 were made and returned
C13_Witness ==
    /\ pc = "session" /\ OnlyStampedCalls /\ Len(trace) = 3
    /\ \A k \in 1..3 : Stamped(k)
    /\ <<trace[1].timestamp, trace[2].timestamp, trace[3].timestamp>>
           = <<Some(T100), Some(T99), Some(T101_5)>>
    /\ DeltaAt(3) = Dy(1, 0)

\* C14: after every convert_single call that supplies a timestamp and
\* returns, last_timestamp is that call's timestamp, on the first record
\* and when the timestamp is smaller than the previous one; the delta of
\* the call made right after it is measured from that timestamp.
C14_TrackerIsMostRecent ==
    /\ \A k \in 1..Len(trace) :
           Stamped(k) => trace[k].after = trace[k].timestamp
    /\ (trace # <<>> /\ Stamped(Len(trace)))
           => last_timestamp = trace[Len(trace)].timestamp
    /\ \A k \in 1..(Len(trace) - 1) :
           (Stamped(k) /\ Stamped(k + 1)) =>
               DeltaAt(k + 1) =
                   Clamp01(DySub(trace[k + 1].timestamp[1],
                                 trace[k].timestamp[1]))

\* after 100.25 a call with the smaller timestamp 99.0 returned and the
\* next call, at 100.0, was measured from 99.0
C14_Witness ==
    /\ pc = "session" /\ Len(trace) = 3
    /\ \A k \in 1..3 : Stamped(k)
    /\ <<trace[1].timestamp, trace[2].timestamp, trace[3].timestamp>>
           = <<Some(T100_25), Some(T99), Some(T100)>>
    /\ trace[2].after = Some(T99)
    /\ DeltaAt(3) = Dy(1, 0)
    /\ last_timestamp = Some(T100)

\* entry k of the log is a reset() or the start of a convert_dataframe
SessionStart(k) == trace[k].op \in {"reset", "convert_dataframe"}

\* C15: after reset(), and at the start of every convert_dataframe call,
\* last_timestamp is unset, and the first record with a timestamp converted
\* afterwards has time_delta 0.0 whatever the converter processed before.
C15_SessionReset ==
    /\ (trace # <<>> /\ SessionStart(Len(trace))) => last_timestamp = None
    /\ \A k \in 1..Len(trace) :
           SessionStart(k) =>
               /\ trace[k].after = None
               /\ \A j \in (k + 1)..Len(trace) :
                      (Stamped(j) /\ \A i \in (k + 1)..(j - 1) : ~Stamped(i))
                          => DeltaAt(j) = Dy(0, 0)

\* a record at 100.0 was converted, the converter reset, and the record
\* at 100.25 converted with time_delta 0.0
C15_Witness ==
    /\ pc = "session" /\ Len(trace) = 3
    /\ Stamped(1) /\ trace[1].timestamp = Some(T100)
    /\ trace[2].op = "reset"
    /\ Stamped(3) /\ trace[3].timestamp = Some(T100_25)
    /\ DeltaAt(3) = Dy(0, 0)

---------------------------------------------------------------------------
(* One record on a fresh converter *)

\* the single call of the run has been made
Parsed == pc = "parsed"

\* the call returned its features
Returned == trace[1].raised = "none"

Features == trace[1].features[1]

IsHexText(s) == \A i \in 1..Len(s) : hex_value(s[i]) >= 0

\* surrounding whitespace and one optional leading 0x/0X removed
StripPrefix(s) ==
    LET t == strip(s)
    IN  IF Len(t) >= 2 /\ t[1] = "0" /\ t[2] \in {"x", "X"}
        THEN strip(SubSeq(t, 3, Len(t)))
        ELSE t

WithoutWhitespace(s) == SelectSeq(s, LAMBDA c : c \notin Whitespace)

\* the data field with its prefix and its whitespace removed
StrippedData(d) == WithoutWhitespace(StripPrefix(d))

\* the byte written by two hexadecimal digits
PairValue(hi, lo) == 16 * hex_value(hi) + hex_value(lo)

\* the sum of the bytes of the non-overlapping pairs of a text of
\* hexadecimal digits, a lone last character left out
ChunkSum(s) ==
    LET RECURSIVE upto(_)
        upto(k) == IF k = 0 THEN 0
                   ELSE upto(k - 1) + PairValue(s[2 * k - 1], s[2 * k])
    IN  upto(Len(s) \div 2)

\* the base-16 value of a text of hexadecimal digits
RECURSIVE HexValue(_)
HexValue(s) ==
    IF s = <<>> THEN 0
    ELSE 16 * HexValue(SubSeq(s, 1, Len(s) - 1)) + hex_value(s[Len(s)])

\* C16: data_length is the number of characters of the data field that
\* remain after removing the 0x/0X prefix and whitespace, counted in
\* hex-digit characters: 16 for a payload of 16 hex digits.
C16_DataLength ==
    (Parsed /\ Returned) =>
        Features.data_length = Len(StrippedData(trace[1].data_field))

\* C17: byte_sum of a payload of valid hex digits (a data field that is
\* hexadecimal digits once its prefix and surrounding whitespace are
\* stripped) is the sum of the bytes of its non-overlapping 2-character
\* chunks from position 0; a lone last character of an odd-length payload
\* contributes nothing; "0102" gives 3.
C17_ByteSum ==
    (Parsed /\ IsHexText(StripPrefix(trace[1].data_field))
            /\ trace[1].arbitration_id = DocId) =>
        /\ Returned
        /\ Features.byte_sum = ChunkSum(StripPrefix(trace[1].data_field))
        /\ trace[1].data_field = DocData => Features.byte_sum = 3

\* the payload "01fF2", of odd length, was summed to 0x01 + 0xFF
C17_Witness ==
    /\ Parsed /\ Returned
    /\ trace[1].data_field = <<"0", "1", "f", "F", "2">>
    /\ Features.byte_sum = 256

\* the stripped data field has a full 2-character chunk that is not
\* hexadecimal
HasBadChunk(d) ==
    LET s == StrippedData(d)
    IN  \E k \in 1..(Len(s) \div 2) :
            hex_value(s[2 * k - 1]) < 0 \/ hex_value(s[2 * k]) < 0

\* C18: for every data field with a 2-character chunk that is not valid
\* hexadecimal, in the first pair, the last pair or a middle pair,
\* convert_single returns features with byte_sum 0 and raises nothing.
C18_BadChunkIsSilent ==
    (Parsed /\ trace[1].arbitration_id = DocId
            /\ HasBadChunk(trace[1].data_field)) =>
        Returned /\ Features.byte_sum = 0

\* C19: first_byte and last_byte are the bytes written by the first two
\* and the last two characters of the stripped data field, and both are 0
\* when fewer than 2 characters remain; so they are equal for a payload of
\* 2 characters, and the last byte of an odd-length payload is taken from
\* its last two characters.
C19_FirstLastByte ==
    (Parsed /\ trace[1].arbitration_id = DocId) =>
        LET s == StrippedData(trace[1].data_field)
            n == Len(s)
        IN  /\ n < 2 =>
                   /\ Returned
                   /\ Features.first_byte = 0 /\ Features.last_byte = 0
            /\ (n >= 2 /\ IsHexText(<<s[1], s[2], s[n - 1], s[n]>>)) =>
                   /\ Returned
                   /\ Features.first_byte = PairValue(s[1], s[2])
                   /\ Features.last_byte = PairValue(s[n - 1], s[n])

\* C20: arb_id_dec of a textual id is the base-16 value of the text left
\* after stripping only an optional leading 0x/0X and surrounding
\* whitespace, the call fails with a parse error when that text is not
\* hexadecimal (an 0x in the middle is not removed), and a numeric id is
\* returned unchanged.
C20_ArbIdParse ==
    (Parsed /\ trace[1].data_field = DocData) =>
        LET id == trace[1].arbitration_id
            s == StripPrefix(id.v)
        IN  IF id.type = "int"
            THEN Returned /\ Features.arb_id_dec = id.v
            ELSE IF s # <<>> /\ IsHexText(s)
            THEN Returned /\ Features.arb_id_dec = HexValue(s)
            ELSE trace[1].raised = "ValueError"

---------------------------------------------------------------------------
(* Masking of the identifiers *)

\* the row with 256 * k added to each identifier
Shifted(row, k) ==
    [row EXCEPT !.Node = @ + 256 * k, !.Left_Child = @ + 256 * k,
                !.Right_Child = @ + 256 * k]

C29_VerifyReturns ==
    (pc = "verified" /\ Len(v_bv) = Len(df)) => v_result \in {"True", "False"}

---------------------------------------------------------------------------
(* The format of an internal node's threshold *)

\* C24: node_to_binary never uses the fallback format Q14.13: for every
\* row that is not a leaf, rows with an unknown feature code included, the
\* feature_id given to float_to_fixed_point is in 0..5 and the threshold is
\* quantized in the format of that feature.
C24_NoFallbackFormat ==
    (Encoded /\ ~RowIsLeaf(node_row)) =>
        LET fid == node_fields(node_row).feature_id
        IN  /\ fid \in 0..5
            /\ FieldAt(node_value, 53, 3) = fid
            /\ select_format(fid, 12, 15) # <<14, 13>>
            /\ FieldAt(node_value, 26, 27) = QuantRef(node_row.Threshold, fid)

\* a row with the unknown code "06" and threshold 5 * 2^-16 was packed with
\* threshold bits 5, the Q11.16 value; Q14.13 would give 1
C24_Witness ==
    /\ pc = "encoded"
    /\ node_row.Feature = "06" /\ node_row.Threshold = Dy(5, -16)
    /\ ~RowIsLeaf(node_row)
    /\ FieldAt(node_value, 26, 27) = 5
    /\ RoundRef(node_row.Threshold, 13) = 1

---------------------------------------------------------------------------
(* The rounding rule *)

\* value * 2^f lies exactly halfway between two integers
IsTie(value, f) ==
    LET s == value.e + f
    IN  s < 0 /\ 2 * (value.m % 2^(-s)) = 2^(-s)

\* the lower of the two integers around value * 2^f
FloorScaled(value, f) == value.m \div 2^(-(value.e + f))

\* the result of call k is the even one of the two integers around its
\* scaled value
EvenNeighbour(k) ==
    LET lo == FloorScaled(q_in[k], FormatTable(q_fid)[2])
    IN  /\ q_out[k].result \in {lo, lo + 1}
        /\ q_out[k].result % 2 = 0

\* C25 as stated: whenever value * 2^fraction_bits lies exactly halfway
\* between two integers, the result of float_to_fixed_point is the even one
\* of the two, for every feature_id.
C25_Stated ==
    \A k \in 1..Len(q_out) :
        IsTie(q_in[k], FormatTable(q_fid)[2]) => EvenNeighbour(k)

\* C25 amended: whenever value * 2^fraction_bits lies exactly halfway
\* between two integers that are both within 0..2^27-1, the result of
\* float_to_fixed_point is the even one of the two, for every feature_id;
\* a scaled value of 0.5 gives 0, 1.5 gives 2 and 2.5 gives 2. A tie below
\* 0 gives 0 and the tie at 2^27 - 1/2 gives 2^27 - 1, by saturation.
C25_HalfToEven ==
    \A k \in 1..Len(q_out) :
        LET f == FormatTable(q_fid)[2]
            lo == FloorScaled(q_in[k], f)
        IN  IsTie(q_in[k], f) =>
                /\ (lo >= 0 /\ lo + 1 <= 2^27 - 1) => EvenNeighbour(k)
                /\ lo < 0 => q_out[k].result = 0
                /\ lo = 2^27 - 1 => q_out[k].result = 2^27 - 1
                /\ q_in[k] = Dy(1, -1 - f) => q_out[k].result = 0
                /\ q_in[k] = Dy(3, -1 - f) => q_out[k].result = 2
                /\ q_in[k] = Dy(5, -1 - f) => q_out[k].result = 2

\* the scaled values 1.5 and 2.5 of feature 1 were both quantized to 2
C25_Witness ==
    /\ Len(q_out) = 2
    /\ q_fid = 1
    /\ q_in[1] = Dy(3, -24) /\ q_out[1].result = 2
    /\ q_in[2] = Dy(5, -24) /\ q_out[2].result = 2

---------------------------------------------------------------------------
(* Validation of a feature vector *)

Validated == pc = "validated"

\* every field of the vector is within its declared inclusive range
WithinRanges(f) ==
    /\ f.arb_id_dec \in 0..2047
    /\ f.data_length \in 0..16
    /\ f.first_byte \in 0..255
    /\ f.last_byte \in 0..255
    /\ f.byte_sum \in 0..2047
    /\ DyLeq(Dy(0, 0), f.time_delta) /\ DyLeq(f.time_delta, Dy(1, 0))

\* the tracker is as the last entry of the log left it
TrackerAsLogged ==
    last_timestamp = IF trace = <<>> THEN None ELSE trace[Len(trace)].after

\* C21: validate_features returns True iff every one of the six fields is
\* within its inclusive range (arb_id_dec 0..2047, data_length 0..16,
\* first_byte and last_byte 0..255, byte_sum 0..2047, time_delta 0..1.0)
\* and False otherwise; it raises nothing for numeric values and leaves
\* last_timestamp and the feature vector as they were.
C21_ValidateRanges ==
    Validated =>
        /\ validation[1].result \in BOOLEAN
        /\ validation[1].result <=> WithinRanges(validation[1].features)
        /\ TrackerAsLogged
        /\ (trace # <<>> /\ trace[Len(trace)].features # None)
               => validation[1].features = trace[Len(trace)].features[1]

\* the vector with byte_sum 2048 and every other field inside was rejected
C21_Witness ==
    /\ Validated
    /\ validation[1].features = [MidVector EXCEPT !.byte_sum = 2048]
    /\ validation[1].result = FALSE

\* C28: every feature vector validate_features accepts fits the declared
\* widths: arb_id_dec < 2^11, data_length < 2^4, first_byte < 2^8,
\* last_byte < 2^8, byte_sum < 2^11; so does the data_length of a payload
\* of 16 hex digits.
C28_FitsBitWidths ==
    (Validated /\ validation[1].result) =>
        LET f == validation[1].features
        IN  /\ f.arb_id_dec < 2^11
            /\ f.data_length < 2^4
            /\ f.first_byte < 2^8
            /\ f.last_byte < 2^8
            /\ f.byte_sum < 2^11
            /\ \A k \in 1..Len(checks) :
                   checks[k][1] # "time_delta"
                       => f[checks[k][1]] < 2^(checks[k][4])

---------------------------------------------------------------------------
(* Tables, untimestamped records and failing records in a session *)

\* the tracker before entry k of the log
Before(k) == IF k = 1 THEN None ELSE trace[k - 1].after

\* the last convert_dataframe entry of the log, 0 if none
LastFrame ==
    IF \E k \in 1..Len(trace) : trace[k].op = "convert_dataframe"
    THEN CHOOSE k \in 1..Len(trace) :
             /\ trace[k].op = "convert_dataframe"
             /\ \A j \in (k + 1)..Len(trace) :
                    trace[j].op # "convert_dataframe"
    ELSE 0

\* the convert_single calls the last convert_dataframe made
RowCalls == {k \in (LastFrame + 1)..Len(trace) : trace[k].in_frame}

\* C23: convert_dataframe on a table without the arbitration-id column or
\* without the data-field column fails before any row is processed: it
\* makes no convert_single call and returns no partial result; a missing
\* timestamp column is no error and gives time_delta 0.0 for every row.
C23_MissingColumns ==
    frame_out # <<>> =>
        /\ ~({"arbitration_id", "data_field"} \subseteq frame_out.columns)
               => /\ frame_out.raised = "ValueError"
                  /\ frame_out.result = None
                  /\ RowCalls = {}
                  /\ trace[LastFrame].after = None
        /\ (/\ {"arbitration_id", "data_field"} \subseteq frame_out.columns
            /\ "timestamp" \notin frame_out.columns)
               => /\ \A k \in RowCalls :
                         /\ trace[k].timestamp = None
                         /\ trace[k].features # None
                                => DeltaAt(k) = Dy(0, 0)
                  /\ (\A k \in 1..Len(frame_out.rows) :
                          convert_single(None, frame_out.rows[k].arbitration_id,
                                         frame_out.rows[k].data_field,
                                         None).raised = "none")
                         => /\ frame_out.raised = "none"
                            /\ Len(frame_out.result[1]) = Len(frame_out.rows)
                            /\ \A k \in 1..Len(frame_out.rows) :
                                   frame_out.result[1][k].time_delta = Dy(0, 0)

\* a table of two rows without the data-field column was refused, and a
\* table of two rows without the timestamp column was converted
C23_Witness ==
    /\ frame_out # <<>>
    /\ Len(frame_out.rows) = 2
    /\ frame_out.columns = {"arbitration_id", "timestamp"}
    /\ frame_out.raised = "ValueError"
    /\ RowCalls = {}

C23_WitnessNoTimestamp ==
    /\ frame_out # <<>>
    /\ Len(frame_out.rows) = 2
    /\ frame_out.columns = {"arbitration_id", "data_field"}
    /\ frame_out.raised = "none"
    /\ frame_out.result[1][2].time_delta = Dy(0, 0)

\* entry k of the log is a convert_single call without timestamp that
\* returned its features
Unstamped(k) ==
    /\ trace[k].op = "convert_single"
    /\ trace[k].timestamp = None
    /\ trace[k].raised = "none"

\* C26: a convert_single call without timestamp returns time_delta 0.0 and
\* leaves last_timestamp as it was; in a sequence of records with
\* timestamps t1, none, t2 the third record's delta is
\* clamp(t2 - t1, 0.0, 1.0).
C26_UntimestampedRecord ==
    /\ \A k \in 1..Len(trace) :
           Unstamped(k) =>
               /\ DeltaAt(k) = Dy(0, 0)
               /\ trace[k].after = Before(k)
    /\ (trace # <<>> /\ Unstamped(Len(trace)))
           => last_timestamp = Before(Len(trace))
    /\ \A k \in 1..(Len(trace) - 2) :
           (/\ Stamped(k) /\ Unstamped(k + 1) /\ Stamped(k + 2)
            /\ ~trace[k + 1].in_frame /\ ~trace[k + 2].in_frame)
               => DeltaAt(k + 2) =
                      Clamp01(DySub(trace[k + 2].timestamp[1],
                                    trace[k].timestamp[1]))

\* records at 100.0, without timestamp and at 100.25 were converted; the
\* third has time_delta 0.25
C26_Witness ==
    /\ pc = "session" /\ Len(trace) = 3
    /\ Stamped(1) /\ trace[1].timestamp = Some(T100)
    /\ Unstamped(2) /\ trace[2].after = Some(T100)
    /\ Stamped(3) /\ trace[3].timestamp = Some(T100_25)
    /\ DeltaAt(3) = Dy(1, -2)

\* entry k of the log is a convert_single call that raised
Failed(k) == trace[k].op = "convert_single" /\ trace[k].raised # "none"

\* C27: a convert_single call that fails with a parse error (invalid
\* arbitration id, invalid first or last byte of the data field) leaves
\* last_timestamp as it was before the call, and the next record that
\* converts is measured from the last timestamped record that converted.
C27_FailureKeepsTracker ==
    /\ \A k \in 1..Len(trace) :
           Failed(k) => trace[k].after = Before(k)
    /\ (trace # <<>> /\ Failed(Len(trace)))
           => last_timestamp = Before(Len(trace))
    /\ \A j \in 1..Len(trace) : \A k \in (j + 2)..Len(trace) :
           (/\ Stamped(j) /\ Stamped(k)
            /\ \A i \in (j + 1)..(k - 1) : Failed(i))
               => DeltaAt(k) =
                      Clamp01(DySub(trace[k].timestamp[1],
                                    trace[j].timestamp[1]))

\* a record at 99.0 was converted, a record at 100.0 whose last byte is
\* not hexadecimal failed, and the record at 100.25 has time_delta 1.0
C27_Witness ==
    /\ pc = "session" /\ Len(trace) = 3
    /\ Stamped(1) /\ trace[1].timestamp = Some(T99)
    /\ Failed(2) /\ trace[2].data_field = <<"0", "1", "0", "g">>
    /\ trace[2].timestamp = Some(T100) /\ trace[2].after = Some(T99)
    /\ Stamped(3) /\ trace[3].timestamp = Some(T100_25)
    /\ DeltaAt(3) = Dy(1, 0)

---------------------------------------------------------------------------
(* The two extractors on the same records *)

SixFeatures ==
    {"arb_id_dec", "data_length", "first_byte", "last_byte", "byte_sum",
     "time_delta"}

\* C30: for every sequence of (arbitration_id, data_field, timestamp)
\* records given in the same order to a fresh
\* CANAttackDetector.extract_features and a fresh
\* CANFeatureConverter.convert_single, each step gives the same values of
\* the six features, or both fail, and both hold the same last_timestamp
\* after every step.
C30_ExtractorsAgree ==
    /\ Len(detector_trace) <= Len(trace)
    /\ \A k \in 1..Len(detector_trace) :
           /\ detector_trace[k].raised = trace[k].raised
           /\ detector_trace[k].after = trace[k].after
           /\ (detector_trace[k].features = None)
                  <=> (trace[k].features = None)
           /\ trace[k].features # None =>
                  \A f \in SixFeatures :
                      detector_trace[k].features[1][f]
                          = trace[k].features[1][f]
    /\ Len(detector_trace) = Len(trace)
           => detector_last_timestamp = last_timestamp

\* both were given a record at 99.0, a record at 100.0 that failed and a
\* record at 100.25, and both returned time_delta 1.0 for the third
C30_Witness ==
    /\ pc = "pair" /\ Len(trace) = 3 /\ Len(detector_trace) = 3
    /\ trace[1].timestamp = Some(T99) /\ detector_trace[1].raised = "none"
    /\ trace[2].timestamp = Some(T100)
    /\ detector_trace[2].raised = "ValueError"
    /\ trace[3].timestamp = Some(T100_25)
    /\ detector_trace[3].features[1].time_delta = Dy(1, 0)
    /\ detector_last_timestamp = Some(T100_25)

===========================================================================
